---- MODULE Spec2Model ----
(***************************************************************************)
(* Model of the timed arithmetic quiz of src/src/App.js: the React state   *)
(* of the App component, its event handlers, the interval callback and the *)
(* two effects.  Every action is one event: the handler's state updates,   *)
(* the re-render and the effects whose dependencies changed.               *)
(*                                                                         *)
(* startGame, resetGame and handleAnswerSubmit are modelled as the         *)
(* functions they are, callable in any phase (handleAnswerSubmit and       *)
(* resetGame carry their own guards for that, lines 119 and 165-169).      *)
(* Called off the screen that shows their button they reach no state of    *)
(* the fields that the page cannot reach.  The inline handlers exist with  *)
(* the screen that renders them: setProblemType on the start screen, the   *)
(* answer input on the game screen.  Typing an answer and submitting it    *)
(* are one action, SubmitAnswer.  The interval callback fires only for an  *)
(* interval that setInterval created and clearInterval has not cancelled.  *)
(*                                                                         *)
(* With operands from 1..MaxNum for a small MaxNum the answers have one    *)
(* digit.                                                                  *)
(***************************************************************************)
EXTENDS Integers, Sequences, FiniteSets

\* ---------------------------------------------------------------- bounds
\* Raw operands are drawn from 1..MaxNum (the program draws from 1..10).
MaxNum == 2
\* handleAnswerSubmit takes its "correct" branch only while score < MaxScore.
MaxScore == 1
\* Interval ids handed out by setInterval are taken from 1..MaxTimerId.
MaxTimerId == 3

\* ------------------------------------------------------ program constants
InitialTime == 60      \* useState(60), setTimeLeft(60)
Bonus       == 30      \* prevTime + 30
Penalty     == 10      \* prevTime - 10
RandomRange == 10      \* Math.floor(Math.random() * 10) + 1

NULL == [null |-> TRUE]    \* useState(null): no current problem
NoTimer == 0               \* useRef(null): timerRef.current holds no interval id
NoDraws == [none |-> TRUE] \* no generateProblem call is under test

ProblemTypes == {"addition", "subtraction", "multiplication", "division", "random"}

VARIABLES
    score,            \* useState(0)
    timeLeft,         \* useState(60)
    currentProblem,   \* useState(null): NULL or [num1, num2, operator, answer]
    userAnswer,       \* useState(''): a string, as a sequence of characters
    message,          \* useState(''): a string, as a sequence of pieces
    isGameOver,       \* useState(false)
    gameStarted,      \* useState(false)
    problemType,      \* useState('random')
    timerRef,         \* useRef(null): NoTimer or the id of the last interval set
    intervals,        \* the ids of the intervals the runtime will still fire
    lastCall,         \* history: the handler the page called last, and the phase it was called in
    draws             \* the random numbers [n1, n2, k] of the generateProblem call under
                      \* test (specification SpecGen); NoDraws in a session

vars == <<score, timeLeft, currentProblem, userAnswer, message, isGameOver,
          gameStarted, problemType, timerRef, intervals, lastCall, draws>>

\* ------------------------------------------------------------- rendering
\* The three screens of the render (lines 180, 233, 278).
Phase ==
    IF isGameOver THEN "OVER"
    ELSE IF gameStarted THEN "PLAYING"
    ELSE "IDLE"

\* ---------------------------------------------------------------- strings
Digits == <<"0", "1", "2", "3", "4", "5", "6", "7", "8", "9">>

DigitChars == { Digits[i] : i \in 1..10 }

DigitValue == [ c \in DigitChars |-> CHOOSE d \in 0..9 : Digits[d + 1] = c ]

IsDigit(c) == c \in DigitChars

\* String(n) of a non-negative integer, as in the template literal of line 130.
RECURSIVE ToString(_)
ToString(n) ==
    IF n < 10 THEN <<Digits[n + 1]>>
    ELSE ToString(n \div 10) \o <<Digits[(n % 10) + 1]>>

\* The value of the longest prefix of decimal digits of s, given the value acc
\* of the digits already read.
RECURSIVE DigitPrefix(_, _)
DigitPrefix(s, acc) ==
    IF s = <<>> \/ ~IsDigit(Head(s)) THEN acc
    ELSE DigitPrefix(Tail(s), 10 * acc + DigitValue[Head(s)])

\* The conversion as a mutant would have it, with Number(s) for
\* parseInt(s, 10) on the empty string: Number('') is 0.
ParseInt_EmptyIsZero(s) ==
    IF s = <<>> THEN <<0>>
    ELSE IF Head(s) = "-"
    THEN IF Tail(s) = <<>> \/ ~IsDigit(Head(Tail(s))) THEN <<>>
         ELSE <<0 - DigitPrefix(Tail(s), 0)>>
    ELSE IF Head(s) = "+"
    THEN IF Tail(s) = <<>> \/ ~IsDigit(Head(Tail(s))) THEN <<>>
         ELSE <<DigitPrefix(Tail(s), 0)>>
    ELSE IF ~IsDigit(Head(s)) THEN <<>>
    ELSE <<DigitPrefix(s, 0)>>

\* parseInt(s, 10): an optional sign, then the longest prefix of digits; NaN
\* when there is no digit.  The result is <<n>>, or <<>> for NaN.
ParseInt(s) ==
    IF s = <<>> THEN <<>>
    ELSE IF Head(s) = "-"
    THEN IF Tail(s) = <<>> \/ ~IsDigit(Head(Tail(s))) THEN <<>>
         ELSE <<0 - DigitPrefix(Tail(s), 0)>>
    ELSE IF Head(s) = "+"
    THEN IF Tail(s) = <<>> \/ ~IsDigit(Head(Tail(s))) THEN <<>>
         ELSE <<DigitPrefix(Tail(s), 0)>>
    ELSE IF ~IsDigit(Head(s)) THEN <<>>
    ELSE <<DigitPrefix(s, 0)>>

NoMessage == <<>>
CorrectMessage == <<"Correct! +30s">>
IncorrectMessage(answer) == <<"Incorrect! -10s. The answer was ">> \o ToString(answer)

\* ------------------------------------------------------- generateProblem
\* The operators as a mutant would have them, with line 78 testing for
\* 'addition' as line 77 does.
Operators_CopiedLine(ptype) ==
    (IF ptype \in {"addition", "random"} THEN <<"+">> ELSE <<>>) \o
    (IF ptype \in {"addition", "random"} THEN <<"-">> ELSE <<>>) \o
    (IF ptype \in {"multiplication", "random"} THEN <<"*">> ELSE <<>>) \o
    (IF ptype \in {"division", "random"} THEN <<"/">> ELSE <<>>)

\* const operators = []; ... operators.push(...)   (lines 76-80)
Operators(ptype) ==
    (IF ptype \in {"addition", "random"} THEN <<"+">> ELSE <<>>) \o
    (IF ptype \in {"subtraction", "random"} THEN <<"-">> ELSE <<>>) \o
    (IF ptype \in {"multiplication", "random"} THEN <<"*">> ELSE <<>>) \o
    (IF ptype \in {"division", "random"} THEN <<"/">> ELSE <<>>)

\* generateProblem as a mutant would have it, without the swap of lines 92-94.
GenerateProblem_NoSwap(n1, n2, k, ptype) ==
    LET operator == Operators(ptype)[k + 1]
    IN  CASE operator = "+" ->
                [num1 |-> n1, num2 |-> n2, operator |-> "+", answer |-> n1 + n2]
          [] operator = "-" ->
                [num1 |-> n1, num2 |-> n2, operator |-> "-", answer |-> n1 - n2]
          [] operator = "*" ->
                [num1 |-> n1, num2 |-> n2, operator |-> "*", answer |-> n1 * n2]
          [] operator = "/" ->
                [num1 |-> n1 * n2, num2 |-> n2, operator |-> "/",
                 answer |-> (n1 * n2) \div n2]
          [] OTHER ->
                [num1 |-> n1, num2 |-> n2, operator |-> "+", answer |-> n1 + n2]

\* generateProblem as a mutant would have it, dividing the raw operands
\* (without lines 103-104).
GenerateProblem_RawDivision(n1, n2, k, ptype) ==
    LET operator == Operators(ptype)[k + 1]
    IN  CASE operator = "+" ->
                [num1 |-> n1, num2 |-> n2, operator |-> "+", answer |-> n1 + n2]
          [] operator = "-" ->
                IF n1 < n2
                THEN [num1 |-> n2, num2 |-> n1, operator |-> "-", answer |-> n2 - n1]
                ELSE [num1 |-> n1, num2 |-> n2, operator |-> "-", answer |-> n1 - n2]
          [] operator = "*" ->
                [num1 |-> n1, num2 |-> n2, operator |-> "*", answer |-> n1 * n2]
          [] operator = "/" ->
                [num1 |-> n1, num2 |-> n2, operator |-> "/", answer |-> n1 \div n2]
          [] OTHER ->
                [num1 |-> n1, num2 |-> n2, operator |-> "+", answer |-> n1 + n2]

\* The problem generateProblem builds from its three random draws: the raw
\* operands n1, n2 and the index k into the operators of ptype.  The
\* quotient of line 105 is written \div: it is the JavaScript quotient when
\* the division is exact.
GenerateProblem(n1, n2, k, ptype) ==
    LET operator == Operators(ptype)[k + 1]
    IN  CASE operator = "+" ->
                [num1 |-> n1, num2 |-> n2, operator |-> "+", answer |-> n1 + n2]
          [] operator = "-" ->
                IF n1 < n2
                THEN [num1 |-> n2, num2 |-> n1, operator |-> "-", answer |-> n2 - n1]
                ELSE [num1 |-> n1, num2 |-> n2, operator |-> "-", answer |-> n1 - n2]
          [] operator = "*" ->
                [num1 |-> n1, num2 |-> n2, operator |-> "*", answer |-> n1 * n2]
          [] operator = "/" ->
                [num1 |-> n1 * n2, num2 |-> n2, operator |-> "/",
                 answer |-> (n1 * n2) \div n2]
          [] OTHER ->
                [num1 |-> n1, num2 |-> n2, operator |-> "+", answer |-> n1 + n2]

\* Every problem generateProblem can set, for each problem type.
AllGenerated ==
    [ ptype \in ProblemTypes |->
        { GenerateProblem(n1, n2, k, ptype) :
            n1 \in 1..MaxNum, n2 \in 1..MaxNum, k \in 0..(Len(Operators(ptype)) - 1) } ]

\* Every problem generateProblem can set under ptype.
Generated(ptype) == AllGenerated[ptype]

\* ---------------------------------------------------------------- effects
\* The clearing of an interval as a mutant would have it: forgotten.
ClearInterval_Forgotten(ref, live) == live

\* if (timerRef.current) clearInterval(timerRef.current)
ClearInterval(ref, live) == IF ref # NoTimer THEN live \ {ref} ELSE live

\* setInterval returns an id that no interval ever had; ids are reused here
\* once neither the runtime nor timerRef holds them.
NewTimerId(ref, live) ==
    CHOOSE id \in 1..MaxTimerId :
        /\ id \notin live
        /\ ref # id
        /\ \A other \in 1..MaxTimerId : (other \notin live /\ ref # other) => id <= other

\* The timer effect as a mutant would have it, with || for && in the
\* condition of line 23.
TimerEffect_OrCondition(ref, live, gs, go) ==
    LET cleaned == ClearInterval(ref, live)
    IN  IF gs \/ ~go
        THEN LET cleared == ClearInterval(ref, cleaned)
                 id      == NewTimerId(ref, cleared)
             IN  [ref |-> id, live |-> cleared \cup {id}]
        ELSE [ref |-> NoTimer, live |-> ClearInterval(ref, cleaned)]

\* The timer effect as a mutant would have it: it never calls setInterval.
TimerEffect_NeverStarts(ref, live, gs, go) ==
    [ref |-> NoTimer, live |-> ClearInterval(ref, ClearInterval(ref, live))]

\* The timer effect re-run for the flags gs, go: the cleanup of its previous
\* run, then its body.  Gives the new timerRef.current and live intervals.
TimerEffect(ref, live, gs, go) ==
    LET cleaned == ClearInterval(ref, live)
    IN  IF gs /\ ~go
        THEN LET cleared == ClearInterval(ref, cleaned)
                 id      == NewTimerId(ref, cleared)
             IN  [ref |-> id, live |-> cleared \cup {id}]
        ELSE IF ~gs \/ go
        THEN [ref |-> NoTimer, live |-> ClearInterval(ref, cleaned)]
        ELSE [ref |-> ref, live |-> cleaned]

\* The timer effect after a render: it runs when gameStarted or isGameOver
\* changed (its dependency array).
AfterTimerEffect(ref, live, gs, go) ==
    IF gs # gameStarted \/ go # isGameOver
    THEN TimerEffect(ref, live, gs, go)
    ELSE [ref |-> ref, live |-> live]

\* The problem effect after a render: the problems currentProblem may hold
\* once it has (or has not) run, given the problem p the handler left.
AfterProblemEffect(p, gs, go, ptype) ==
    IF (gs # gameStarted \/ go # isGameOver \/ ptype # problemType) /\ gs /\ ~go
    THEN Generated(ptype)
    ELSE {p}

\* ------------------------------------------------------------------- init
Init ==
    /\ score = 0
    /\ timeLeft = InitialTime
    /\ currentProblem = NULL
    /\ userAnswer = <<>>
    /\ message = NoMessage
    /\ isGameOver = FALSE
    /\ gameStarted = FALSE
    /\ problemType = "random"
    /\ timerRef = NoTimer
    /\ intervals = {}
    /\ lastCall = [op |-> "mount", from |-> "IDLE"]
    /\ draws = NoDraws

\* ---------------------------------------------------------------- actions
Call(op) == [op |-> op, from |-> Phase]

\* onClick of a problem-type button, rendered on the start screen only (lines
\* 180-222): setProblemType(t), the
\* re-render and the problem effect, which has problemType as a dependency.
SetProblemType ==
    /\ ~gameStarted /\ ~isGameOver
    /\ \E t \in ProblemTypes :
        /\ problemType' = t
        /\ currentProblem' \in AfterProblemEffect(currentProblem, gameStarted, isGameOver, t)
    /\ lastCall' = Call("setProblemType")
    /\ UNCHANGED <<score, timeLeft, userAnswer, message, isGameOver, gameStarted,
                   timerRef, intervals, draws>>

\* startGame as a mutant would have it, without setScore(0).
StartGame_KeepsScore ==
    /\ score' = score
    /\ timeLeft' = InitialTime
    /\ isGameOver' = FALSE
    /\ gameStarted' = TRUE
    /\ message' = NoMessage
    /\ userAnswer' = <<>>
    /\ currentProblem' \in
            UNION { AfterProblemEffect(p, TRUE, FALSE, problemType) :
                        p \in Generated(problemType) }
    /\ LET t == AfterTimerEffect(timerRef, intervals, TRUE, FALSE)
       IN  timerRef' = t.ref /\ intervals' = t.live
    /\ lastCall' = Call("startGame")
    /\ UNCHANGED <<problemType, draws>>

\* startGame (lines 142-154), the re-render and both effects.
StartGame ==
    /\ score' = 0
    /\ timeLeft' = InitialTime
    /\ isGameOver' = FALSE
    /\ gameStarted' = TRUE
    /\ message' = NoMessage
    /\ userAnswer' = <<>>
    /\ currentProblem' \in
            UNION { AfterProblemEffect(p, TRUE, FALSE, problemType) :
                        p \in Generated(problemType) }
    /\ LET t == AfterTimerEffect(timerRef, intervals, TRUE, FALSE)
       IN  timerRef' = t.ref /\ intervals' = t.live
    /\ lastCall' = Call("startGame")
    /\ UNCHANGED <<problemType, draws>>

\* resetGame as a mutant would have it, without setCurrentProblem(null).
ResetGame_KeepsProblem ==
    /\ gameStarted' = FALSE
    /\ isGameOver' = FALSE
    /\ score' = 0
    /\ timeLeft' = InitialTime
    /\ message' = NoMessage
    /\ userAnswer' = <<>>
    /\ currentProblem' \in AfterProblemEffect(currentProblem, FALSE, FALSE, problemType)
    /\ LET cleared == ClearInterval(timerRef, intervals)
           t       == AfterTimerEffect(NoTimer, cleared, FALSE, FALSE)
       IN  timerRef' = t.ref /\ intervals' = t.live
    /\ lastCall' = Call("resetGame")
    /\ UNCHANGED <<problemType, draws>>

\* resetGame (lines 157-170), the re-render and the effects.
ResetGame ==
    /\ gameStarted' = FALSE
    /\ isGameOver' = FALSE
    /\ score' = 0
    /\ timeLeft' = InitialTime
    /\ message' = NoMessage
    /\ userAnswer' = <<>>
    /\ currentProblem' \in AfterProblemEffect(NULL, FALSE, FALSE, problemType)
    /\ LET cleared == ClearInterval(timerRef, intervals)
           t       == AfterTimerEffect(NoTimer, cleared, FALSE, FALSE)
       IN  timerRef' = t.ref /\ intervals' = t.live
    /\ lastCall' = Call("resetGame")
    /\ UNCHANGED <<problemType, draws>>

\* The test of line 31, as a mutant would have it, off by one.
TimeIsUp_OffByOne(prevTime) == prevTime <= 2

\* The test of line 31: prevTime <= 1
TimeIsUp(prevTime) == prevTime <= 1

\* The callback as a mutant would have it, without setGameStarted(false)
\* (line 35).
Tick_KeepsGameStarted ==
    /\ \E id \in intervals :
        IF TimeIsUp(timeLeft)
        THEN /\ timeLeft' = 0
             /\ isGameOver' = TRUE
             /\ UNCHANGED gameStarted
             /\ currentProblem' \in
                    AfterProblemEffect(currentProblem, gameStarted, TRUE, problemType)
             /\ LET cleared == ClearInterval(timerRef, intervals)
                    t       == AfterTimerEffect(timerRef, cleared, gameStarted, TRUE)
                IN  timerRef' = t.ref /\ intervals' = t.live
        ELSE /\ timeLeft' = timeLeft - 1
             /\ UNCHANGED <<isGameOver, gameStarted, currentProblem, timerRef, intervals>>
    /\ UNCHANGED <<score, userAnswer, message, problemType, lastCall, draws>>

\* The callback of the interval (lines 29-40), fired by the runtime for an
\* interval that is still live, the re-render and the effects.
Tick ==
    /\ \E id \in intervals :
        IF TimeIsUp(timeLeft)
        THEN /\ timeLeft' = 0
             /\ isGameOver' = TRUE
             /\ gameStarted' = FALSE
             /\ currentProblem' \in AfterProblemEffect(currentProblem, FALSE, TRUE, problemType)
             /\ LET cleared == ClearInterval(timerRef, intervals)
                    t       == AfterTimerEffect(timerRef, cleared, FALSE, TRUE)
                IN  timerRef' = t.ref /\ intervals' = t.live
        ELSE /\ timeLeft' = timeLeft - 1
             /\ UNCHANGED <<isGameOver, gameStarted, currentProblem, timerRef, intervals>>
    /\ UNCHANGED <<score, userAnswer, message, problemType, lastCall, draws>>

\* The values e.target.value takes (onChange, line 254): the decimal numbers
\* around the current answer, such a number with a fraction and the empty
\* value.  Off the game screen there is no input field
\* and the value stays what it was.
Typed ==
    IF gameStarted /\ ~isGameOver /\ currentProblem # NULL
    THEN LET n == currentProblem.answer
         IN  { ToString(n), ToString(n + 1), ToString(n) \o <<".", "5">>, <<>> }
    ELSE {userAnswer}

\* Math.max(a, b)
Max(a, b) == IF a >= b THEN a ELSE b

\* The guard of handleAnswerSubmit (line 119), as a mutant would have it
\* without the phase flags.
SubmitIgnored_ProblemOnly == currentProblem = NULL

\* The guard of handleAnswerSubmit (line 119): no problem, game not active,
\* or game over.
SubmitIgnored == currentProblem = NULL \/ ~gameStarted \/ isGameOver

\* The updater of line 126, as a mutant would have it with the wrong bonus.
AddBonus_Ten(prevTime) == prevTime + 10

\* The updater of line 126: (prevTime) => prevTime + 30
AddBonus(prevTime) == prevTime + Bonus

\* The updater of line 129, as a mutant would have it without Math.max.
Deduct_Unclamped(prevTime) == prevTime - Penalty

\* The updater of line 129: (prevTime) => Math.max(0, prevTime - 10)
Deduct(prevTime) == Max(0, prevTime - Penalty)

\* handleAnswerSubmit (lines 117-139) in a render whose userAnswer is input.
\* No flag changes, so no effect runs.
HandleAnswerSubmit(input) ==
    IF SubmitIgnored
    THEN /\ userAnswer' = input
         /\ UNCHANGED <<score, timeLeft, currentProblem, message, isGameOver,
                        gameStarted, problemType, timerRef, intervals>>
    ELSE LET parsedAnswer == ParseInt(input)
         IN  /\ IF parsedAnswer = <<currentProblem.answer>>
                THEN /\ score < MaxScore
                     /\ score' = score + 1
                     /\ timeLeft' = AddBonus(timeLeft)
                     /\ message' = CorrectMessage
                ELSE /\ timeLeft' = Deduct(timeLeft)
                     /\ message' = IncorrectMessage(currentProblem.answer)
                     /\ UNCHANGED score
             /\ userAnswer' = <<>>
             /\ currentProblem' \in Generated(problemType)
             /\ UNCHANGED <<isGameOver, gameStarted, problemType, timerRef, intervals>>

\* onSubmit of the answer form (line 250) with the value typed into the input
\* (onChange, setUserAnswer, line 254).
SubmitAnswer ==
    /\ \E input \in Typed : HandleAnswerSubmit(input)
    /\ lastCall' = Call("handleAnswerSubmit")
    /\ UNCHANGED draws

Next ==
    \/ SetProblemType
    \/ StartGame
    \/ ResetGame
    \/ Tick
    \/ SubmitAnswer

Spec == Init /\ [][Next]_vars

\* The program with its clock: setInterval(..., 1000) (line 29) fires the
\* callback of a live interval again and again, so a tick that stays enabled
\* is eventually taken.
FairSpec == Spec /\ WF_vars(Tick)

\* ------------------------------------------------- generateProblem alone
\* One call of generateProblem (lines 69-114) for every problem type and
\* every outcome of its three Math.random() calls: both operands from
\* 1..10 and an index into the operators of the type.
GenInit ==
    /\ problemType \in ProblemTypes
    /\ draws \in [n1 : 1..RandomRange, n2 : 1..RandomRange, k : 0..3]
    /\ draws.k < Len(Operators(problemType))
    /\ score = 0
    /\ timeLeft = InitialTime
    /\ currentProblem = NULL
    /\ userAnswer = <<>>
    /\ message = NoMessage
    /\ isGameOver = FALSE
    /\ gameStarted = FALSE
    /\ timerRef = NoTimer
    /\ intervals = {}
    /\ lastCall = [op |-> "mount", from |-> "IDLE"]

\* generateProblem() with the numbers drawn: setCurrentProblem (line 113).
GenerateDrawn ==
    /\ draws # NoDraws
    /\ currentProblem = NULL
    /\ currentProblem' = GenerateProblem(draws.n1, draws.n2, draws.k, problemType)
    /\ UNCHANGED <<score, timeLeft, userAnswer, message, isGameOver, gameStarted,
                   problemType, timerRef, intervals, lastCall, draws>>

SpecGen == GenInit /\ [][GenerateDrawn]_vars

\* ------------------------------------------------------------- properties
IsPlaying == gameStarted /\ ~isGameOver

\* The step is a call of handleAnswerSubmit in a render whose userAnswer is
\* input.
Submits(input) ==
    /\ lastCall' = Call("handleAnswerSubmit")
    /\ HandleAnswerSubmit(input)

\* The session is playing and shows a problem.
Answerable == IsPlaying /\ currentProblem # NULL

\* The decimal text of an integer that is not the current answer.
WrongInteger == ToString(currentProblem.answer + 1)

\* C1: in every reachable state, timeLeft = 0 implies that the session is
\* over (no playing session has no time left).
C1_TimeZeroImpliesOver == timeLeft = 0 => Phase = "OVER"

\* C2: an incorrect answer submitted in a playing session with timeLeft <= 10
\* leaves timeLeft = 0 and the session over, in that same step.
C2_WrongAnswerEndsGameAtOnce ==
    [][(/\ Answerable
        /\ timeLeft <= 10
        /\ Submits(WrongInteger))
       => (timeLeft' = 0 /\ isGameOver' /\ ~gameStarted')]_vars

\* C3: in every reachable state, currentProblem is present if and only if
\* the session is playing.
C3_ProblemPresentIffPlaying == (currentProblem # NULL) <=> (Phase = "PLAYING")

\* C4: startGame, from any phase and with any score and time, leaves the
\* session playing with score 0, timeLeft 60 and a current problem.
C4_StartYieldsFreshPlayingSession ==
    [][StartGame =>
          /\ gameStarted' /\ ~isGameOver'
          /\ score' = 0
          /\ timeLeft' = 60
          /\ currentProblem' # NULL]_vars

\* C4 witness: startGame has just been called on the game-over screen.
C4_StartedFromOver ==
    /\ lastCall = [op |-> "startGame", from |-> "OVER"]
    /\ IsPlaying /\ score = 0 /\ timeLeft = 60 /\ currentProblem # NULL

\* C5: a tick of a playing session with timeLeft <= 1 leaves the session
\* over, timeLeft = 0, no current problem and the score as it was.
C5_LastTickEndsGameAndClearsProblem ==
    [][(Tick /\ IsPlaying /\ timeLeft <= 1) =>
          /\ isGameOver' /\ ~gameStarted'
          /\ timeLeft' = 0
          /\ currentProblem' = NULL
          /\ score' = score]_vars

\* C6: submitting the decimal text of the current answer in a playing session
\* adds 1 to score and 30 to timeLeft, sets the "correct" message, keeps the
\* session playing and sets a generated problem of the selected type.
C6_CorrectAnswerScoresAndAddsTime ==
    [][(/\ Answerable
        /\ Submits(ToString(currentProblem.answer)))
       => /\ score' = score + 1
          /\ timeLeft' = timeLeft + 30
          /\ message' = CorrectMessage
          /\ gameStarted' /\ ~isGameOver'
          /\ currentProblem' \in Generated(problemType)]_vars

\* C6 witness: the first correct answer of a session, given at once.
C6_CorrectAnswerGiven ==
    /\ lastCall = [op |-> "handleAnswerSubmit", from |-> "PLAYING"]
    /\ message = CorrectMessage
    /\ score = 1 /\ timeLeft = 90 /\ IsPlaying /\ currentProblem # NULL

\* C7: submitting an integer other than the current answer in a playing
\* session sets timeLeft to max(0, timeLeft - 10), leaves score unchanged and
\* sets the "incorrect" message, which carries the answer of the problem that
\* was answered.
C7_WrongAnswerCostsTime ==
    [][(/\ Answerable
        /\ Submits(WrongInteger))
       => /\ timeLeft' = (IF timeLeft >= 10 THEN timeLeft - 10 ELSE 0)
          /\ score' = score
          /\ message' # NoMessage /\ message' # CorrectMessage
          /\ Head(message') = Head(IncorrectMessage(0))
          /\ ParseInt(Tail(message')) = <<currentProblem.answer>>]_vars

\* C7 witness: a wrong answer given with less than 10 seconds left, to a
\* problem whose answer differs from that of the problem now shown.
C7_WrongAnswerGiven ==
    /\ lastCall = [op |-> "handleAnswerSubmit", from |-> "PLAYING"]
    /\ message # NoMessage /\ message # CorrectMessage
    /\ timeLeft = 0
    /\ currentProblem # NULL
    /\ ParseInt(Tail(message)) # <<currentProblem.answer>>

\* C8: handleAnswerSubmit called while the session is not playing, or while
\* there is no current problem, leaves score, timeLeft, the phase flags,
\* currentProblem and message unchanged.
C8_SubmitIgnoredOutsidePlaying ==
    [][\A input \in Typed :
          (/\ ~Answerable
           /\ Submits(input))
          => UNCHANGED <<score, timeLeft, gameStarted, isGameOver,
                         currentProblem, message>>]_vars

\* C8 witness: handleAnswerSubmit has just been called on the game-over
\* screen, where the last problem is still stored.
C8_SubmittedWhenOver ==
    /\ lastCall = [op |-> "handleAnswerSubmit", from |-> "OVER"]
    /\ Phase = "OVER" /\ currentProblem # NULL

C10_ResetYieldsIdle ==
    [][ResetGame =>
          /\ ~gameStarted' /\ ~isGameOver'
          /\ score' = 0
          /\ timeLeft' = 60
          /\ currentProblem' = NULL
          /\ message' = NoMessage]_vars

\* C10 witness: resetGame has just been called on the game-over screen.
C10_ResetFromOver ==
    /\ lastCall = [op |-> "resetGame", from |-> "OVER"]
    /\ Phase = "IDLE" /\ score = 0 /\ timeLeft = 60
    /\ currentProblem = NULL /\ message = NoMessage

\* C11: for every problem type and every pair of raw operands from 1..10,
\* the answer of the generated problem is a non-negative integer; for "-"
\* num1 >= num2; for "/" num1 is an exact multiple of num2 (and the answer
\* is that exact quotient).
C11_AnswerIsNonNegativeInteger ==
    currentProblem # NULL =>
        /\ currentProblem.answer \in Nat
        /\ currentProblem.operator = "-" => currentProblem.num1 >= currentProblem.num2
        /\ currentProblem.operator = "/" =>
              /\ currentProblem.num1 % currentProblem.num2 = 0
              /\ currentProblem.answer * currentProblem.num2 = currentProblem.num1

\* C11 witness: a subtraction generated from raw operands 1 and 10, which
\* had to be swapped.
C11_SwappedSubtraction ==
    /\ draws # NoDraws /\ currentProblem # NULL
    /\ draws.n1 = 1 /\ draws.n2 = 10
    /\ currentProblem.operator = "-"
    /\ currentProblem.num1 = 10 /\ currentProblem.num2 = 1 /\ currentProblem.answer = 9

\* The operators a problem of each mode may have.
CandidateOperators ==
    [ addition       |-> {"+"},
      subtraction    |-> {"-"},
      multiplication |-> {"*"},
      division       |-> {"/"},
      random         |-> {"+", "-", "*", "/"} ]

\* C12: the operator of the current problem is one of the candidates of the
\* selected problem type, and the problem type does not change off the start
\* screen, so it is the type the session was started with.
C12_OperatorBelongsToMode ==
    /\ [](currentProblem # NULL =>
             currentProblem.operator \in CandidateOperators[problemType])
    /\ [][Phase # "IDLE" => problemType' = problemType]_vars

\* C12 witness: a random-mode session that shows a division after an answer.
C12_RandomModeDivision ==
    /\ IsPlaying /\ problemType = "random"
    /\ lastCall = [op |-> "handleAnswerSubmit", from |-> "PLAYING"]
    /\ currentProblem # NULL /\ currentProblem.operator = "/"

\* C13: score and timeLeft are never negative, and a step of the interval
\* callback or of handleAnswerSubmit leaves score as it was or adds exactly 1
\* to it, the latter only with the "correct" message.
C13_ScoreNeverDecreases ==
    /\ [](score >= 0 /\ timeLeft >= 0)
    /\ [][(score' # score /\ (Tick \/ SubmitAnswer)) =>
             (score' = score + 1 /\ message' = CorrectMessage)]_vars

\* C13 witness: a game that ended with a point scored and wrong answers
\* given after it.
C13_OverWithScore ==
    /\ Phase = "OVER" /\ score = 1 /\ timeLeft = 0
    /\ message # NoMessage /\ message # CorrectMessage

\* The empty input: parseInt('') is NaN.
UnparsableInput == <<>>

\* C14: submitting an input that parseInt maps to NaN in a playing session
\* is a step like that of a wrong answer: score unchanged, timeLeft =
\* max(0, timeLeft - 10), the "incorrect" message with the answer.
C14_UnparsableInputIsIncorrect ==
    [][(/\ Answerable
        /\ Submits(UnparsableInput))
       => /\ score' = score
          /\ timeLeft' = (IF timeLeft >= 10 THEN timeLeft - 10 ELSE 0)
          /\ message' = IncorrectMessage(currentProblem.answer)]_vars

\* C14 witness: an answer has just been given to a problem whose answer is
\* 0, in the first second of a session, and was counted as wrong; the empty
\* input is the one input that would be right if it were read as 0.
C14_EmptyAnswerToZero ==
    /\ lastCall = [op |-> "handleAnswerSubmit", from |-> "PLAYING"]
    /\ IsPlaying /\ score = 0 /\ timeLeft = 50
    /\ message = IncorrectMessage(0)

\* C15: the stored answer is the operator applied to the returned operands:
\* the sum and the product of the raw draws, the difference of the draws
\* with the larger first, and for a division the first returned operand is
\* the product of the raw draws, the second the second draw and the answer
\* the first draw, in 1..10, with the first operand in 1..100.
C15_AnswerIsOperatorApplied ==
    (draws # NoDraws /\ currentProblem # NULL) =>
        LET p == currentProblem
            a == draws.n1
            b == draws.n2
        IN  /\ p.operator = "+" =>
                p.num1 = a /\ p.num2 = b /\ p.answer = p.num1 + p.num2
            /\ p.operator = "-" =>
                /\ p.num1 = Max(a, b) /\ p.num2 = a + b - Max(a, b)
                /\ p.answer = p.num1 - p.num2
            /\ p.operator = "*" =>
                p.num1 = a /\ p.num2 = b /\ p.answer = p.num1 * p.num2
            /\ p.operator = "/" =>
                /\ p.num1 = a * b /\ p.num2 = b
                /\ p.answer * p.num2 = p.num1
                /\ p.answer = a /\ p.answer \in 1..10
                /\ p.num1 \in 1..100

\* C15 witness: the division drawn from 10 and 10 has been generated.
C15_LargestDivision ==
    /\ draws # NoDraws /\ currentProblem # NULL
    /\ currentProblem.operator = "/"
    /\ currentProblem.num1 = 100 /\ currentProblem.answer = 10

\* C16: a tick of a playing session with timeLeft > 1 takes exactly 1 from
\* timeLeft and leaves the phase flags, score, problemType and
\* currentProblem unchanged.
C16_TickDecrementsByOne ==
    [][(Tick /\ IsPlaying /\ timeLeft > 1) =>
          /\ timeLeft' = timeLeft - 1
          /\ UNCHANGED <<gameStarted, isGameOver, score, problemType,
                         currentProblem>>]_vars

\* C16 witness: a session that has had 58 ticks and nothing else: 2 seconds
\* are left and it is still playing.
C16_TwoSecondsLeft ==
    /\ IsPlaying /\ timeLeft = 2 /\ score = 0 /\ message = NoMessage
    /\ lastCall.op = "startGame"

\* C17: exactly one interval is live while the session is playing, the one
\* timerRef holds, and none while it is not; so there are never two.
C17_OneTimerWhilePlaying ==
    IF IsPlaying
    THEN Cardinality(intervals) = 1 /\ intervals = {timerRef}
    ELSE intervals = {} /\ timerRef = NoTimer

\* C17 witness: startGame has just been called in a playing session, whose
\* interval was live already.
C17_StartedWhilePlaying ==
    /\ lastCall = [op |-> "startGame", from |-> "PLAYING"]
    /\ IsPlaying /\ timeLeft = 60
    /\ Cardinality(intervals) = 1

\* The step raises the score: a correct answer was submitted.
CorrectAnswerStep == score' > score

\* The step is a call of startGame, of resetGame (each records itself in
\* lastCall).
CallsStartGame == lastCall'.op = "startGame" /\ StartGame

CallsResetGame == lastCall'.op = "resetGame" /\ ResetGame

\* The step raises timeLeft: a correct answer adds 30 to it (line 126), and
\* startGame and resetGame, which begin another session, set it back to 60
\* (lines 144, 159); no other step does.
TimeRaised == timeLeft' > timeLeft

\* C18: under fair ticking, if correct answers eventually stop and no
\* further session is begun (eventually no step raises the score or the
\* time), a playing session eventually is over with timeLeft 0, unless
\* resetGame took it back to the start screen; a playing session is left in
\* no other way, and an over session stays over with timeLeft 0 in every
\* step that is not a call of startGame or resetGame.
C18_PlayingEventuallyOver ==
    /\ (<>[][~(CorrectAnswerStep \/ TimeRaised)]_vars) =>
          [](IsPlaying => <>((Phase = "OVER" /\ timeLeft = 0) \/ Phase = "IDLE"))
    /\ [][(IsPlaying /\ ~IsPlaying' /\ ~CallsResetGame) =>
             (Phase' = "OVER" /\ timeLeft' = 0)]_vars
    /\ [][(Phase = "OVER" /\ ~CallsStartGame /\ ~CallsResetGame) =>
             (Phase' = "OVER" /\ timeLeft' = 0)]_vars

\* C18 witness: a session in which a correct and then a wrong answer were
\* given has run out of time.
C18_OverAfterAnswers ==
    /\ Phase = "OVER" /\ timeLeft = 0
    /\ lastCall = [op |-> "handleAnswerSubmit", from |-> "PLAYING"]
    /\ score = 1 /\ message # CorrectMessage /\ message # NoMessage

\* C19: once timeLeft is 0 it stays 0 in every step that is not a call of
\* startGame or resetGame.
C19_TimeStaysZero ==
    [][(timeLeft = 0 /\ ~StartGame /\ ~ResetGame) => timeLeft' = 0]_vars

====
